---- MODULE Spec2Model ----
(***************************************************************************)
(* Knowledge extraction and retrieval engine of cordova-backend.          *)
(*                                                                         *)
(* Text is a sequence of one-character strings, so that the regular       *)
(* expressions, split/trim/replace calls and template literals of the     *)
(* controllers are computed, not assumed.  A number is a record           *)
(* [k, n, d]: k = "fin" is the rational n/d (d > 0, lowest terms),         *)
(* k = "inf" is +Infinity (n = 1) or -Infinity (n = -1), k = "nan" is NaN. *)
(***************************************************************************)
EXTENDS Integers, Sequences, FiniteSets, TLC

\* ------------------------------------------------------------ characters
Digits == {"0", "1", "2", "3", "4", "5", "6", "7", "8", "9"}

DigitVal(c) ==
  CASE c = "0" -> 0 [] c = "1" -> 1 [] c = "2" -> 2 [] c = "3" -> 3
    [] c = "4" -> 4 [] c = "5" -> 5 [] c = "6" -> 6 [] c = "7" -> 7
    [] c = "8" -> 8 [] c = "9" -> 9

DigitChar(n) ==
  CASE n = 0 -> "0" [] n = 1 -> "1" [] n = 2 -> "2" [] n = 3 -> "3"
    [] n = 4 -> "4" [] n = 5 -> "5" [] n = 6 -> "6" [] n = 7 -> "7"
    [] n = 8 -> "8" [] n = 9 -> "9"

\* \s of the regular expressions, on the alphabet of the modelled inputs.
IsSpace(c) == c = " "
IsDigit(c) == c \in Digits

\* [\+\-\*x\/]: the operator class of knowledge.controller.ts.
OpCharsX == {"+", "-", "*", "x", "/"}
\* [\+\-\*\/]: the operator class of the chat controllers (no x).
OpChars == {"+", "-", "*", "/"}

\* The lower-case form of the upper-case letters.
LowerOf ==
  ("A" :> "a") @@ ("B" :> "b") @@ ("C" :> "c") @@ ("D" :> "d") @@ ("E" :> "e")
  @@ ("F" :> "f") @@ ("G" :> "g") @@ ("H" :> "h") @@ ("I" :> "i") @@ ("J" :> "j")
  @@ ("K" :> "k") @@ ("L" :> "l") @@ ("M" :> "m") @@ ("N" :> "n") @@ ("O" :> "o")
  @@ ("P" :> "p") @@ ("Q" :> "q") @@ ("R" :> "r") @@ ("S" :> "s") @@ ("T" :> "t")
  @@ ("U" :> "u") @@ ("V" :> "v") @@ ("W" :> "w") @@ ("X" :> "x") @@ ("Y" :> "y")
  @@ ("Z" :> "z") @@ ("Á" :> "á") @@ ("Ã" :> "ã") @@ ("Ç" :> "ç") @@ ("É" :> "é")
  @@ ("Í" :> "í") @@ ("Ó" :> "ó") @@ ("Õ" :> "õ") @@ ("Ú" :> "ú")

\* String.prototype.toLowerCase on one character.
ToLowerChar(c) == IF c \in DOMAIN LowerOf THEN LowerOf[c] ELSE c

toLowerCase(s) == [i \in 1..Len(s) |-> ToLowerChar(s[i])]

\* ---------------------------------------------------------------- strings
RECURSIVE TrimLeft(_)
TrimLeft(s) == IF s # <<>> /\ IsSpace(Head(s)) THEN TrimLeft(Tail(s)) ELSE s

RECURSIVE TrimRight(_)
TrimRight(s) ==
  IF s # <<>> /\ IsSpace(s[Len(s)]) THEN TrimRight(SubSeq(s, 1, Len(s) - 1))
  ELSE s

\* String.prototype.trim
trim(s) == TrimRight(TrimLeft(s))

\* s.replace(/\s+/g, '')
RemoveSpaces(s) == SelectSeq(s, LAMBDA c : ~IsSpace(c))

\* s.replace(/\s+/g, ' ')
RECURSIVE CollapseSpaces(_)
CollapseSpaces(s) ==
  IF s = <<>> THEN <<>>
  ELSE IF IsSpace(Head(s))
       THEN <<" ">> \o CollapseSpaces(TrimLeft(s))
       ELSE <<Head(s)>> \o CollapseSpaces(Tail(s))

\* s.includes(t)
StartsWithAt(s, i, t) ==
  /\ i + Len(t) - 1 <= Len(s)
  /\ \A k \in 1..Len(t) : s[i + k - 1] = t[k]

includes(s, t) == \E i \in 1..(Len(s) + 1) : StartsWithAt(s, i, t)

\* s.split(c) for a separator that is one character of the set seps
\* (split(/[\+\-\*x\/]/), split('='), split(' ')).
RECURSIVE SplitOn(_, _, _)
SplitOn(s, seps, cur) ==
  IF s = <<>> THEN <<cur>>
  ELSE IF Head(s) \in seps THEN <<cur>> \o SplitOn(Tail(s), seps, <<>>)
       ELSE SplitOn(Tail(s), seps, Append(cur, Head(s)))

split(s, seps) == SplitOn(s, seps, <<>>)

\* s.match(/[\+\-\*x\/]/g) || []
MatchAllOps(s) == SelectSeq(s, LAMBDA c : c \in OpCharsX)

\* The index after the longest run of characters of class cls from i on.
RECURSIVE SkipWhile(_, _, _)
SkipWhile(s, i, cls) ==
  IF i <= Len(s) /\ s[i] \in cls THEN SkipWhile(s, i + 1, cls) ELSE i

SkipSpaces(s, i) == SkipWhile(s, i, {" "})
SkipDigits(s, i) == SkipWhile(s, i, Digits)

\* ---------------------------------------------------------------- numbers
RECURSIVE GCD(_, _)
GCD(a, b) == IF b = 0 THEN a ELSE GCD(b, a % b)

Abs(x) == IF x < 0 THEN -x ELSE x

NaN == [k |-> "nan", n |-> 0, d |-> 0]
Inf(sign) == [k |-> "inf", n |-> sign, d |-> 0]

Fin(n, d) ==
  LET g == GCD(Abs(n), d)
  IN [k |-> "fin", n |-> n \div g, d |-> d \div g]

Int2Num(n) == Fin(n, 1)

Sign(x) == IF x.n < 0 THEN -1 ELSE IF x.n > 0 THEN 1 ELSE 0

\* IEEE-754 arithmetic of JavaScript numbers, exact on the rationals.
NumAdd(x, y) ==
  IF x.k = "nan" \/ y.k = "nan" THEN NaN
  ELSE IF x.k = "inf" /\ y.k = "inf" THEN (IF x.n = y.n THEN x ELSE NaN)
  ELSE IF x.k = "inf" THEN x
  ELSE IF y.k = "inf" THEN y
  ELSE Fin(x.n * y.d + y.n * x.d, x.d * y.d)

NumNeg(x) == IF x.k = "nan" THEN NaN ELSE [x EXCEPT !.n = -x.n]

NumSub(x, y) == NumAdd(x, NumNeg(y))

NumMul(x, y) ==
  IF x.k = "nan" \/ y.k = "nan" THEN NaN
  ELSE IF x.k = "inf" \/ y.k = "inf"
       THEN (IF Sign(x) = 0 \/ Sign(y) = 0 THEN NaN ELSE Inf(Sign(x) * Sign(y)))
  ELSE Fin(x.n * y.n, x.d * y.d)

\* The operands of the modelled inputs are unsigned literals, so a zero
\* divisor is +0.
NumDiv(x, y) ==
  IF x.k = "nan" \/ y.k = "nan" THEN NaN
  ELSE IF x.k = "inf" /\ y.k = "inf" THEN NaN
  ELSE IF x.k = "inf" THEN (IF Sign(y) < 0 THEN Inf(-x.n) ELSE x)
  ELSE IF y.k = "inf" THEN Int2Num(0)
  ELSE IF y.n = 0 THEN (IF x.n = 0 THEN NaN ELSE Inf(Sign(x)))
  ELSE Fin(x.n * y.d * Sign(y), x.d * Abs(y.n))

\* The switch(operator) of calculateExpression.
ApplyOp(op, x, y) ==
  CASE op = "+" -> NumAdd(x, y)
    [] op = "-" -> NumSub(x, y)
    [] op \in {"*", "x"} -> NumMul(x, y)
    [] op = "/" -> NumDiv(x, y)

\* ===  (NaN is not equal to itself)
StrictEq(x, y) == x.k # "nan" /\ y.k # "nan" /\ x = y

isFinite(x) == x.k = "fin"

RECURSIVE DigitsToNat(_, _)
DigitsToNat(s, acc) ==
  IF s = <<>> THEN acc ELSE DigitsToNat(Tail(s), acc * 10 + DigitVal(Head(s)))

InfinityStr == <<"I", "n", "f", "i", "n", "i", "t", "y">>
NaNStr == <<"N", "a", "N">>

\* Number(s) for the strings of the modelled inputs: surrounding white space
\* is dropped, the empty string is 0, a digit string is its decimal value,
\* "Infinity" is Infinity, anything else is NaN.
Number(s) ==
  LET t == trim(s)
  IN IF t = <<>> THEN Int2Num(0)
     ELSE IF \A i \in 1..Len(t) : IsDigit(t[i]) THEN Int2Num(DigitsToNat(t, 0))
     ELSE IF t = InfinityStr THEN Inf(1)
     ELSE NaN

RECURSIVE NatToStr(_)
NatToStr(n) ==
  IF n < 10 THEN <<DigitChar(n)>>
  ELSE NatToStr(n \div 10) \o <<DigitChar(n % 10)>>

\* `${x}` for a number: integers and the non-finite values.  A fraction is
\* written as its numerator, "/" and denominator, a form no input uses.
NumToStr(x) ==
  IF x.k = "nan" THEN NaNStr
  ELSE IF x.k = "inf" THEN (IF x.n < 0 THEN <<"-">> ELSE <<>>) \o InfinityStr
  ELSE IF x.d = 1 THEN (IF x.n < 0 THEN <<"-">> ELSE <<>>) \o NatToStr(Abs(x.n))
  ELSE <<"#">> \o NatToStr(Abs(x.n)) \o <<"/">> \o NatToStr(x.d)

\* ------------------------------------------------------------- evaluators
\* calculateExpression of knowledge.controller.ts (the same body in
\* learnFromMessage and in findKnowledge): the operands are the pieces
\* between operator characters, folded strictly left to right.
RECURSIVE FoldLeft(_, _, _, _)
FoldLeft(numbers, operators, i, result) ==
  IF i > Len(operators) THEN result
  ELSE FoldLeft(numbers, operators, i + 1,
                ApplyOp(operators[i], result, numbers[i + 1]))

calculateExpression(expr) ==
  LET parts == split(expr, OpCharsX)
      numbers == [i \in 1..Len(parts) |-> Number(parts[i])]
      operators == MatchAllOps(expr)
  IN FoldLeft(numbers, operators, 1, numbers[1])

\* A flat expression: digit strings joined by + - * / and nothing else.
IsFlatExpr(s) ==
  LET parts == split(s, OpChars)
  IN /\ s # <<>>
     /\ \A i \in 1..Len(s) : s[i] \in Digits \cup OpChars
     /\ \A i \in 1..Len(parts) : parts[i] # <<>>

\* eval(s) of a flat expression: JavaScript precedence, * and / bind tighter
\* than + and -, each level left to right.  sum holds the finished terms,
\* term the product being built.
RECURSIVE PrecFold(_, _, _, _, _)
PrecFold(numbers, operators, i, sum, term) ==
  IF i > Len(operators) THEN NumAdd(sum, term)
  ELSE IF operators[i] \in {"*", "/"}
       THEN PrecFold(numbers, operators, i + 1, sum,
                     ApplyOp(operators[i], term, numbers[i + 1]))
  ELSE IF operators[i] = "+"
       THEN PrecFold(numbers, operators, i + 1, NumAdd(sum, term), numbers[i + 1])
  ELSE PrecFold(numbers, operators, i + 1, NumAdd(sum, term),
                NumNeg(numbers[i + 1]))

\* eval of the strings the controllers hand it.  A string that is not a flat
\* expression makes eval throw; the callers catch and go on with NaN.
EvalJS(s) ==
  IF IsFlatExpr(s)
  THEN LET parts == split(s, OpChars)
           numbers == [i \in 1..Len(parts) |-> Number(parts[i])]
           operators == SelectSeq(s, LAMBDA c : c \in OpChars)
       IN PrecFold(numbers, operators, 1, Int2Num(0), numbers[1])
  ELSE NaN

\* evaluateExpression of chat.controller.ts: every character outside
\* [0-9+\-*\/()] is removed, the rest is handed to eval.
evaluateExpression(expr) ==
  LET cleanExpr ==
        SelectSeq(expr, LAMBDA c : c \in Digits \cup OpChars \cup {"(", ")"})
  IN EvalJS(cleanExpr)

\* ------------------------------------------------------------------ Store
\* A field a document does not set.
Undefined == "undefined"

\* doc.f of a JavaScript object: a document is a record of the fields it has.
Field(doc, f) == IF f \in DOMAIN doc THEN doc[f] ELSE Undefined

\* The paths of KnowledgeSchema the modelled controllers write.  A field the
\* schema does not declare (tokens, patterns, url) is dropped on save.
SchemaPaths ==
  {"content", "term", "category", "type", "source", "path", "timestamp",
   "confidence"}

\* A schema whose path is not required.
SchemaValid_NoPath(doc) ==
  /\ "content" \in DOMAIN doc /\ doc.content # <<>>
  /\ "source" \in DOMAIN doc /\ doc.source # ""

\* KnowledgeSchema: content, source and path are required (a required string
\* is rejected when undefined or empty).
SchemaValid(doc) ==
  /\ "content" \in DOMAIN doc /\ doc.content # <<>>
  /\ "source" \in DOMAIN doc /\ doc.source # ""
  /\ "path" \in DOMAIN doc /\ doc.path # ""

\* The document as saved at time now: the schema's paths only, timestamp
\* defaulting to Date.now.
Saved(doc, now) ==
  LET kept == [f \in (DOMAIN doc) \cap SchemaPaths |-> doc[f]]
  IN IF "timestamp" \in DOMAIN kept THEN kept
     ELSE [f \in (DOMAIN kept) \cup {"timestamp"} |->
             IF f = "timestamp" THEN now ELSE kept[f]]

\* A create that validates nothing.
CreateThrows_Never(doc) == FALSE

\* Knowledge.create(doc) rejects a document that fails validation.
CreateThrows(doc) == ~SchemaValid(doc)

\* Knowledge.create(doc): the collection after the call.
Create(st, doc, now) ==
  IF CreateThrows(doc) THEN st ELSE Append(st, Saved(doc, now))

\* An insertMany that replaces the collection by the batch.
insertMany_Replace(st, docs, now) ==
  IF \A i \in 1..Len(docs) : SchemaValid(docs[i])
  THEN [i \in 1..Len(docs) |-> Saved(docs[i], now)]
  ELSE st

\* Knowledge.insertMany(docs): every document is validated before any is
\* written; the batch is appended in order.
insertMany(st, docs, now) ==
  IF \A i \in 1..Len(docs) : SchemaValid(docs[i])
  THEN st \o [i \in 1..Len(docs) |-> Saved(docs[i], now)]
  ELSE st

\* Knowledge.findOne({content, type}) finds a document.
ExistsContentType(st, content, type) ==
  \E i \in 1..Len(st) : st[i].content = content /\ Field(st[i], "type") = type

\* An existence check that never finds the source tag.
ExistsBySource_Never(st, source) == FALSE

\* Knowledge.findOne({source}) finds a document.
ExistsBySource(st, source) == \E i \in 1..Len(st) : st[i].source = source

\* ---------------------------------------------------------------- seeding
\* The loop limit of populateBasicMath.
SeedMax == 10

SeedDoc(content, path, now) ==
  [content |-> content, source |-> "basic_math", path |-> path,
   timestamp |-> now]

\* `${a} ${op} ${b}`
Bin(a, op, b) == NatToStr(a) \o <<" ", op, " ">> \o NatToStr(b)

\* `${lhs} = ${value}`
Equation(lhs, value) == lhs \o <<" ", "=", " ">> \o value

\* The w-th (0..3) document pushed for one (i, j) of the first loop.
SeedMain(i, j, w, now) ==
  LET combined == Bin(i, "+", j) \o <<" ", "*", " ">> \o NatToStr(10)
      combined2 == Bin(i, "*", 10) \o <<" ", "+", " ">> \o NatToStr(j)
  IN CASE w = 0 ->
            SeedDoc(Equation(Bin(i, "+", j), NatToStr(i + j)), "addition", now)
       [] w = 1 ->
            SeedDoc(Equation(Bin(i, "*", j), NatToStr(i * j)), "multiplication", now)
       [] w = 2 ->
            SeedDoc(Equation(combined, NumToStr(evaluateExpression(combined))),
                    "combined", now)
       [] w = 3 ->
            SeedDoc(Equation(combined2, NumToStr(evaluateExpression(combined2))),
                    "combined", now)

\* The first loop, i and j from 0 to SeedMax, in push order.
SeedMainLoop(now) ==
  [k \in 1..((SeedMax + 1) * (SeedMax + 1) * 4) |->
     LET t == (k - 1) \div 4
     IN SeedMain(t \div (SeedMax + 1), t % (SeedMax + 1), (k - 1) % 4, now)]

\* Subtraction, i from 0 to SeedMax and j from 0 to i.
SeedSubLoop(now) ==
  [k \in 1..(((SeedMax + 1) * (SeedMax + 2)) \div 2) |->
     LET i == CHOOSE a \in 0..SeedMax :
                (a * (a + 1)) \div 2 <= k - 1 /\ k - 1 < ((a + 1) * (a + 2)) \div 2
         j == (k - 1) - (i * (i + 1)) \div 2
     IN SeedDoc(Equation(Bin(i, "-", j), NatToStr(i - j)), "subtraction", now)]

\* Division, `${i * j} / ${i} = ${j}`, i and j from 1 to SeedMax.
SeedDivLoop(now) ==
  [k \in 1..(SeedMax * SeedMax) |->
     LET i == ((k - 1) \div SeedMax) + 1
         j == ((k - 1) % SeedMax) + 1
     IN SeedDoc(Equation(Bin(i * j, "/", i), NatToStr(j)), "division", now)]

\* basicExpressions of populateBasicMath, in push order.
basicExpressions(now) ==
  SeedMainLoop(now) \o SeedSubLoop(now) \o SeedDivLoop(now)

\* ----------------------------------------------------- regular expressions
\* The literal pieces of the controllers' patterns, as characters.
Lit_capital == <<"c", "a", "p", "i", "t", "a", "l">>
Lit_presidente == <<"p", "r", "e", "s", "i", "d", "e", "n", "t", "e">>
Lit_lider == <<"l", "í", "d", "e", "r">>
Lit_e == <<"é">>
Lit_oque == <<"o", " ", "q", "u", "e", " ", "é">>
Lit_significa == <<"s", "i", "g", "n", "i", "f", "i", "c", "a">>
Lit_define == <<"d", "e", "f", "i", "n", "e", "-", "s", "e", " ", "c", "o", "m", "o">>
Lit_sao == <<"s", "ã", "o">>
Lit_pais == <<"p", "a", "í", "s">>
Lit_continente == <<"c", "o", "n", "t", "i", "n", "e", "n", "t", "e">>
Lit_clima == <<"c", "l", "i", "m", "a">>
Lit_politica == <<"p", "o", "l", "í", "t", "i", "c", "a">>
Lit_governo == <<"g", "o", "v", "e", "r", "n", "o">>
Lit_eleicao == <<"e", "l", "e", "i", "ç", "ã", "o">>
Lit_quanto == <<"q", "u", "a", "n", "t", "o">>
Lit_partido == <<"p", "a", "r", "t", "i", "d", "o">>

\* The smallest index of lo..hi that satisfies P, or 0.
FirstIndex(lo, hi, P(_)) ==
  LET hit == {i \in lo..hi : P(i)}
  IN IF hit = {} THEN 0 ELSE CHOOSE i \in hit : \A k \in hit : i <= k

\* The largest index of lo..hi that satisfies P, or 0.
LastIndex(lo, hi, P(_)) ==
  LET hit == {i \in lo..hi : P(i)}
  IN IF hit = {} THEN 0 ELSE CHOOSE i \in hit : \A k \in hit : i >= k

\* \d+\s*[ops]\s*\d+ anchored at i: the index after the match, or 0.  Every
\* quantifier is greedy and none can give characters back usefully: what
\* follows a run of digits or blanks is never a digit or blank of the run.
BinaryEnd(s, i, ops) ==
  LET a == SkipDigits(s, i)
      b == SkipSpaces(s, a)
      c == SkipSpaces(s, b + 1)
      d == SkipDigits(s, c)
  IN IF a > i /\ b <= Len(s) /\ s[b] \in ops /\ d > c THEN d ELSE 0

\* ^\d+(\s*[\+\-\*x\/]\s*\d+)*$ of learnFromMessage (knowledge.controller.ts):
\* digit strings joined by operators, blanks allowed around the operators only.
IsMathExpression(e) ==
  LET parts == split(e, OpCharsX)
  IN /\ \A i \in 1..Len(parts) :
          LET t == trim(parts[i])
          IN t # <<>> /\ \A k \in 1..Len(t) : IsDigit(t[k])
     /\ e # <<>> /\ IsDigit(e[1]) /\ IsDigit(e[Len(e)])

\* (\d+\s*[ops]\s*\d+)\s*=\s*(\d+) anchored at i: where the pieces lie, with
\* end = 0 when there is no match at i.
EquationAt(s, i, ops) ==
  LET d == BinaryEnd(s, i, ops)
      e == SkipSpaces(s, d)
      f == SkipSpaces(s, e + 1)
      g == SkipDigits(s, f)
  IN IF d # 0 /\ e <= Len(s) /\ s[e] = "=" /\ g > f
     THEN [end |-> g, expression |-> SubSeq(s, i, d - 1),
           result |-> SubSeq(s, f, g - 1)]
     ELSE [end |-> 0, expression |-> <<>>, result |-> <<>>]

\* message.match(mathPattern) of the first chat controller:
\* /(\d+\s*[\+\-\*\/]\s*\d+)\s*=\s*(\d+)/, the leftmost match.
MathGroups(m) ==
  IF m.end = 0 THEN [found |-> FALSE, expression |-> <<>>, result |-> <<>>]
  ELSE [found |-> TRUE, expression |-> m.expression, result |-> m.result]

MathAt(message, i) ==
  MathGroups(IF i = 0 THEN [end |-> 0] ELSE EquationAt(message, i, OpChars))

mathPattern(message) ==
  MathAt(message,
         FirstIndex(1, Len(message),
                    LAMBDA k : EquationAt(message, k, OpChars).end # 0))

\* One of the literals lits, then " d", one of a e o, and a blank, anchored
\* at i (case-insensitive): the index after the blank, or 0.
OfPrefixEnd(s, i, lits) ==
  LET low == toLowerCase(s)
      hit == {l \in lits :
                /\ StartsWithAt(low, i, l \o <<" ", "d">>)
                /\ i + Len(l) + 3 <= Len(s)
                /\ low[i + Len(l) + 2] \in {"a", "e", "o"}
                /\ low[i + Len(l) + 3] = " "}
  IN IF hit = {} THEN 0 ELSE LET l == CHOOSE l \in hit : TRUE IN i + Len(l) + 4

\* (.+) é (.+) from g on: the blank before the last " é " that leaves a
\* character on each side (the first group is greedy), or 0.
LastIs(s, g) ==
  LET low == toLowerCase(s)
  IN LastIndex(g + 1, Len(s) - 3,
               LAMBDA q : StartsWithAt(low, q, <<" ">> \o Lit_e \o <<" ">>))

\* /<lits> d[aeo] (.+) é (.+)/i, the leftmost match and its two groups.
OfIsPattern(message, lits) ==
  LET ok(i) == OfPrefixEnd(message, i, lits) # 0
               /\ LastIs(message, OfPrefixEnd(message, i, lits)) # 0
      i == FirstIndex(1, Len(message), ok)
  IN IF i = 0 THEN [found |-> FALSE, first |-> <<>>, second |-> <<>>]
     ELSE LET g == OfPrefixEnd(message, i, lits)
              q == LastIs(message, g)
          IN [found |-> TRUE, first |-> SubSeq(message, g, q - 1),
              second |-> SubSeq(message, q + 3, Len(message))]

\* /a capital d[aeo] (.+) é (.+)/i
capitalPattern(message) == OfIsPattern(message, {<<"a", " ">> \o Lit_capital})

\* /(?:o presidente|líder) d[aeo] (.+) é (.+)/i
presidentPattern(message) ==
  OfIsPattern(message, {<<"o", " ">> \o Lit_presidente, Lit_lider})

\* /(?:o que é|significa|define-se como|é|são) (.+)/i matches the message.
definitionPattern(message) ==
  LET low == toLowerCase(message)
  IN \E l \in {Lit_oque, Lit_significa, Lit_define, Lit_e, Lit_sao} :
       \E i \in 1..Len(message) :
         /\ StartsWithAt(low, i, l \o <<" ">>)
         /\ i + Len(l) + 1 <= Len(message)

\* KnowledgeType of the first chat controller.
KnowledgeType ==
  [MATH |-> "math", GEOGRAPHY |-> "geography", POLITICS |-> "politics",
   GENERAL |-> "general"]

\* detectKnowledgeType
detectKnowledgeType(message) ==
  LET msgLower == toLowerCase(message)
  IN IF \E i \in 1..Len(msgLower) :
          msgLower[i] \in Digits \cup {"+", "-", "*", "/", "="}
     THEN KnowledgeType.MATH
     ELSE IF \E l \in {Lit_capital, Lit_pais, Lit_continente, Lit_clima} :
               includes(msgLower, l)
     THEN KnowledgeType.GEOGRAPHY
     ELSE IF \E l \in {Lit_presidente, Lit_politica, Lit_governo, Lit_eleicao,
                       Lit_partido} : includes(msgLower, l)
     THEN KnowledgeType.POLITICS
     ELSE KnowledgeType.GENERAL

\* ------------------------------------------------- knowledge.controller.ts
\* learnFromMessage, up to its first Store call: the two sides of the taught
\* equation, whether the left side is a math expression whose left-to-right
\* value === Number(right side), and the content to persist.
learnFromMessage(message) ==
  IF ~includes(message, <<"=">>)
  THEN [valid |-> FALSE, expression |-> <<>>, result |-> <<>>, content |-> <<>>]
  ELSE LET parts == split(message, {"="})
           expression == trim(parts[1])
           result == trim(parts[2])
       IN [valid |-> /\ IsMathExpression(expression)
                     /\ StrictEq(calculateExpression(expression), Number(result)),
           expression |-> expression,
           result |-> result,
           content |-> Equation(expression, result)]

\* The document learnFromMessage creates.
TeachingDoc(content) ==
  [content |-> content, source |-> "user_teaching", type |-> "math"]

\* query.replace(/quanto[é|e]/gi, '')
RECURSIVE RemoveQuanto(_)
RemoveQuanto(s) ==
  IF s = <<>> THEN <<>>
  ELSE IF /\ StartsWithAt(toLowerCase(s), 1, Lit_quanto)
          /\ Len(s) > Len(Lit_quanto)
          /\ toLowerCase(s)[Len(Lit_quanto) + 1] \in {"é", "|", "e"}
       THEN RemoveQuanto(SubSeq(s, Len(Lit_quanto) + 2, Len(s)))
       ELSE <<Head(s)>> \o RemoveQuanto(Tail(s))

\* findKnowledge, up to its first Store call.  mathMatch is the leftmost
\* match of /(\d+\s*[\+\-\*x\/]\s*\d+\s*[\+\-\*x\/\s\d]*)/.
FoundExpression(expression, result) ==
  [mathMatch |-> TRUE, expression |-> expression, result |-> result,
   formattedExpression |-> Equation(expression, NumToStr(result))]

Calculated(expression) ==
  FoundExpression(expression, calculateExpression(expression))

MathMatchAt(searchQuery, i) ==
  IF i = 0
  THEN [mathMatch |-> FALSE, expression |-> <<>>, result |-> NaN,
        formattedExpression |-> <<>>]
  ELSE Calculated(trim(CollapseSpaces(
         SubSeq(searchQuery, i,
                SkipWhile(searchQuery, BinaryEnd(searchQuery, i, OpCharsX),
                          OpCharsX \cup Digits \cup {" "}) - 1))))

MathMatch(searchQuery) ==
  MathMatchAt(searchQuery,
              FirstIndex(1, Len(searchQuery),
                         LAMBDA k : BinaryEnd(searchQuery, k, OpCharsX) # 0))

findKnowledge(query) ==
  MathMatch(trim(CollapseSpaces(RemoveQuanto(
              SelectSeq(query, LAMBDA c : c # "?")))))

\* A calculated document that carries the path the schema requires.
CalculatedDoc_WithPath(content) ==
  [content |-> content, source |-> "calculated", type |-> "math",
   path |-> "calculated"]

\* The document findKnowledge creates.
CalculatedDoc(content) ==
  [content |-> content, source |-> "calculated", type |-> "math"]

\* processWebContent: the matches of
\* /(\d+)\s*([\+\-\*x\/])\s*(\d+)\s*=\s*(\d+)/g from index from on, in order.
RECURSIVE MatchAllEquations(_, _)
MatchAllEquations(content, from) ==
  LET i == FirstIndex(from, Len(content),
                      LAMBDA k : EquationAt(content, k, OpCharsX).end # 0)
  IN IF i = 0 THEN <<>>
     ELSE LET m == EquationAt(content, i, OpCharsX)
              sides == split(m.expression, OpCharsX)
          IN << [num1 |-> trim(sides[1]),
                 operator |-> MatchAllOps(m.expression)[1],
                 num2 |-> trim(sides[2]),
                 result |-> m.result] >>
             \o MatchAllEquations(content, m.end)

\* The document processWebContent creates (url is not a path of the schema).
WebDoc(content, url) ==
  [content |-> content, source |-> "web", type |-> "math", url |-> url]

\* The loop of processWebContent over matches[k..]: the collection when the
\* loop ends, and whether a create rejected (the catch returns false).
RECURSIVE WebLoop(_, _, _, _, _)
WebLoop(st, matches, k, url, now) ==
  IF k > Len(matches) THEN [store |-> st, threw |-> FALSE]
  ELSE LET m == matches[k]
           calculated == ApplyOp(m.operator, Number(m.num1), Number(m.num2))
           expression == Equation(m.num1 \o <<" ", m.operator, " ">> \o m.num2,
                                  m.result)
       IN IF /\ StrictEq(calculated, Number(m.result))
             /\ ~ExistsContentType(st, expression, "math")
          THEN IF CreateThrows(WebDoc(expression, url))
               THEN [store |-> st, threw |-> TRUE]
               ELSE WebLoop(Create(st, WebDoc(expression, url), now), matches,
                            k + 1, url, now)
          ELSE WebLoop(st, matches, k + 1, url, now)

processWebContent(st, content, url, now) ==
  WebLoop(st, MatchAllEquations(content, 1), 1, url, now)

\* ------------------------------------------------------ chat.controller.ts
\* \w of the regular expressions.
WordChars ==
  Digits \cup {"_"} \cup
  {"a", "b", "c", "d", "e", "f", "g", "h", "i", "j", "k", "l", "m", "n",
   "o", "p", "q", "r", "s", "t", "u", "v", "w", "x", "y", "z", "A", "B",
   "C", "D", "E", "F", "G", "H", "I", "J", "K", "L", "M", "N", "O", "P",
   "Q", "R", "S", "T", "U", "V", "W", "X", "Y", "Z"}

IsWord(s, i) == i >= 1 /\ i <= Len(s) /\ s[i] \in WordChars

\* \b between s[i - 1] and s[i].
Boundary(s, i) == IsWord(s, i - 1) # IsWord(s, i)

Lit_is == <<"i", "s">>
Lit_are == <<"a", "r", "e">>
Lit_means == <<"m", "e", "a", "n", "s">>
Lit_tag == <<"t", "a", "g">>
Lit_estrutura == <<"e", "s", "t", "r", "u", "t", "u", "r", "a">>
Lit_html == <<"h", "t", "m", "l">>
Lit_http == <<"h", "t", "t", "p", ":", "/", "/">>
Lit_https == <<"h", "t", "t", "p", "s", ":", "/", "/">>

\* The first step of generateResponse: the leftmost match of
\* /(\d+\s*[\+\-\*\/]\s*\d+)/, without its blanks, handed to eval.
ArithmeticCheck(message) ==
  LET i == FirstIndex(1, Len(message),
                      LAMBDA k : BinaryEnd(message, k, OpChars) # 0)
  IN IF i = 0 THEN [mathMatch |-> FALSE, cleanExpr |-> <<>>, result |-> NaN]
     ELSE LET cleanExpr ==
                RemoveSpaces(SubSeq(message, i,
                                    BinaryEnd(message, i, OpChars) - 1))
          IN [mathMatch |-> TRUE, cleanExpr |-> cleanExpr,
              result |-> EvalJS(cleanExpr)]

\* The characters a regular expression gives a meaning to.
MetaChars ==
  {"\\", "^", "$", ".", "|", "?", "*", "+", "(", ")", "[", "]", "{", "}"}

\* s used as a pattern matches exactly the text s.
RegexFree(s) == \A i \in 1..Len(s) : s[i] \notin MetaChars

\* The four $or patterns of generateResponse on one content, for a search
\* term t without regular-expression metacharacters (case-insensitive).
MatchesAt(c, t, occ) ==
  \/ \E i \in occ : Boundary(c, i) /\ Boundary(c, i + Len(t))
  \/ \E i \in occ :
       /\ i = 1 \/ (i > 2 /\ c[i - 2] = "." /\ c[i - 1] = " ")
       /\ Boundary(c, i + Len(t))
  \/ \E i \in occ :
       /\ i + Len(t) <= Len(c) /\ IsSpace(c[i + Len(t)])
       /\ \E w \in {Lit_is, Lit_are, Lit_e, Lit_sao, Lit_significa, Lit_means} :
            StartsWithAt(c, SkipSpaces(c, i + Len(t)), w)
  \/ \E i \in occ :
       /\ i > 1 /\ c[i - 1] = "<"
       /\ \E k \in (i + Len(t))..Len(c) : c[k] = ">"
  \/ \E i \in occ :
       \E g \in 1..(i - 1) :
         /\ StartsWithAt(c, g, Lit_tag \o <<" ">>)
         /\ SkipSpaces(c, g + Len(Lit_tag)) = i

MatchesLowered(c, t) ==
  MatchesAt(c, t, {i \in 1..Len(c) : StartsWithAt(c, i, t)})

MatchesSearch(content, t) == MatchesLowered(toLowerCase(content), t)

\* The rank of a source tag in string order, for sort({source: -1}).
SourceRank(source) ==
  CASE source = "auto_learning" -> 1
    [] source = "basic_math" -> 2
    [] source = "calculated" -> 3
    [] source = "user_conversation" -> 4
    [] source = "user_input" -> 5
    [] source = "user_teaching" -> 6
    [] source = "web" -> 7

\* The documents findOne(...).sort({source: -1, timestamp: -1}) may return:
\* the matches that no other match precedes in the sort order.  The order
\* among documents equal in both keys is not specified.
SearchHits(st, t) ==
  LET hits == {i \in 1..Len(st) : MatchesSearch(st[i].content, t)}
      before(i, k) ==
        \/ SourceRank(st[i].source) > SourceRank(st[k].source)
        \/ /\ st[i].source = st[k].source
           /\ st[i].timestamp > st[k].timestamp
  IN {i \in hits : \A k \in hits : ~before(k, i)}

\* content.replace(/<[^>]*>/g, ' ')
RECURSIVE RemoveTags(_)
RemoveTags(s) ==
  IF s = <<>> THEN <<>>
  ELSE IF Head(s) = "<" /\ \E k \in 2..Len(s) : s[k] = ">"
       THEN LET k == FirstIndex(2, Len(s), LAMBDA j : s[j] = ">")
            IN <<" ">> \o RemoveTags(SubSeq(s, k + 1, Len(s)))
       ELSE <<Head(s)>> \o RemoveTags(Tail(s))

\* extractRelevantContent
extractRelevantContent(content, term) ==
  LET cleanContent == trim(CollapseSpaces(RemoveTags(content)))
      sentences == split(cleanContent, {".", "!", "?"})
      relevant == SelectSeq(sentences,
                    LAMBDA x : includes(toLowerCase(x), toLowerCase(term)))
  IN IF Len(relevant) > 0 THEN trim(relevant[1]) ELSE cleanContent

\* A reply to a hit that carries the confidence of a miss.
FoundReply_Zero(knowledge, searchTerm) ==
  [content |-> extractRelevantContent(knowledge.content, searchTerm),
   confidence |-> Int2Num(0)]

\* The replies of generateResponse.  A fixed piece of text is one element.
FoundReply(knowledge, searchTerm) ==
  [content |-> extractRelevantContent(knowledge.content, searchTerm),
   confidence |-> Fin(8, 10)]

NotFoundReply(message) ==
  [content |-> <<"Não encontrei uma definição para \"">> \o message
               \o <<"\". Você pode me ensinar?">>,
   confidence |-> Int2Num(0)]

ArithmeticReply(cleanExpr, result) ==
  [content |-> Equation(cleanExpr, NumToStr(result)), confidence |-> Int2Num(1)]

\* ------------------------------------------- the first chat controller
\* learnFromMessage of the first chat controller, up to its Store call: the
\* rule that fires (the rules are tried in this order and the first match
\* returns), the in-process map entries it sets, the document it hands to
\* Knowledge.create and the value it returns when the create succeeds.
\* definitionPattern is declared and never tested.
RuleOf(message, m, c, p) ==
  IF m.found
  THEN [rule |-> "math",
        sets |-> {<<RemoveSpaces(m.expression), m.result>>,
                  <<m.expression, m.result>>},
        doc |-> [content |-> Equation(m.expression, m.result),
                 source |-> "user_teaching", type |-> KnowledgeType.MATH],
        ret |-> TRUE]
  ELSE IF c.found
  THEN [rule |-> "capital",
        sets |-> {<<trim(c.first), trim(c.second)>>},
        doc |-> [content |-> message, source |-> "user_conversation",
                 type |-> KnowledgeType.GEOGRAPHY],
        ret |-> TRUE]
  ELSE IF p.found
  THEN [rule |-> "president",
        sets |-> {<<trim(p.first), trim(p.second)>>},
        doc |-> [content |-> message, source |-> "user_conversation",
                 type |-> KnowledgeType.POLITICS],
        ret |-> TRUE]
  ELSE [rule |-> "fallback",
        sets |-> {},
        doc |-> [content |-> message, source |-> "user_conversation",
                 type |-> detectKnowledgeType(message)],
        ret |-> FALSE]

learnFromMessage_v1(message) ==
  RuleOf(message, mathPattern(message), capitalPattern(message),
         presidentPattern(message))

\* map.set(key, value) for every pair of sets; a map is a set of pairs with
\* one pair per key.
MapSet(map, sets) ==
  {e \in map : \A x \in sets : x[1] # e[1]} \cup sets

\* searchTerms of generateResponse
searchTerms(message) ==
  SelectSeq(split(trim(toLowerCase(message)), {" "}), LAMBDA t : Len(t) > 2)

\* The query of generateResponse on one content, for a message without
\* regular-expression metacharacters: searchTerms.join('|') is the empty
\* pattern, which matches everything, when there are no search terms.
MatchesLow(c, terms, lowMessage) ==
  \/ terms = <<>>
  \/ \E k \in 1..Len(terms) : includes(c, terms[k])
  \/ includes(c, lowMessage)

MatchesQuery_v1(content, terms, lowMessage) ==
  MatchesLow(toLowerCase(content), terms, lowMessage)

\* Knowledge.find(query).sort({_id: -1}).limit(5): the indices of the
\* matching documents, newest first.
ResultLimit == 5

Newest(hits, n) ==
  [k \in 1..n |-> CHOOSE i \in hits : Cardinality({j \in hits : j > i}) = k - 1]

Limited(hits) ==
  Newest(hits, IF Cardinality(hits) < ResultLimit THEN Cardinality(hits)
               ELSE ResultLimit)

Matching(st, terms, lowMessage) ==
  Limited({i \in 1..Len(st) : MatchesQuery_v1(st[i].content, terms, lowMessage)})

find_v1(st, message) ==
  Matching(st, searchTerms(message), toLowerCase(message))

\* bestMatch.replace(/https?:\/\/[^\s]+/g, '')
RECURSIVE RemoveUrls(_)
RemoveUrls(s) ==
  IF s = <<>> THEN <<>>
  ELSE LET h == IF StartsWithAt(s, 1, Lit_https) THEN Len(Lit_https)
                ELSE IF StartsWithAt(s, 1, Lit_http) THEN Len(Lit_http)
                ELSE 0
           e == FirstIndex(h + 1, Len(s), LAMBDA k : IsSpace(s[k]))
       IN IF h > 0 /\ h < Len(s) /\ ~IsSpace(s[h + 1])
          THEN IF e = 0 THEN <<>> ELSE RemoveUrls(SubSeq(s, e, Len(s)))
          ELSE <<Head(s)>> \o RemoveUrls(Tail(s))

\* .replace(/[^\w\s<>\/="'{}().,;:-]/g, ' ')
KeptChars ==
  WordChars \cup
  {" ", "<", ">", "/", "=", "\"", "'", "{", "}", "(", ")", ".", ",", ";",
   ":", "-"}

BlankOthers(s) == [i \in 1..Len(s) |-> IF s[i] \in KeptChars THEN s[i] ELSE " "]

\* sentences.join('. ')
RECURSIVE join(_, _)
join(parts, sep) ==
  IF parts = <<>> THEN <<>>
  ELSE IF Len(parts) = 1 THEN parts[1]
  ELSE parts[1] \o sep \o join(Tail(parts), sep)

\* bestMatch.split(/[.!?]+/): a run of separators splits once.
SplitSentences(s) ==
  LET raw == split(s, {".", "!", "?"})
      n == Len(raw)
  IN [k \in 1..Len(SelectSeq([i \in 1..n |-> i],
                             LAMBDA i : i = 1 \/ i = n \/ raw[i] # <<>>)) |->
        raw[SelectSeq([i \in 1..n |-> i],
                      LAMBDA i : i = 1 \/ i = n \/ raw[i] # <<>>)[k]]]

\* relevantSentences.join('. ') || bestMatch
Relevant(terms, bestMatch, sentences) ==
  IF \E i \in 1..Len(sentences), k \in 1..Len(terms) :
       includes(toLowerCase(sentences[i]), terms[k]) /\ sentences[i] # <<>>
  THEN join(SelectSeq(sentences,
                      LAMBDA x : \E k \in 1..Len(terms) :
                                   includes(toLowerCase(x), terms[k])),
            <<".", " ">>)
  ELSE bestMatch

BestMatch(terms, bestMatch) ==
  Relevant(terms, bestMatch, SplitSentences(bestMatch))

Responded(st, msgLower, terms, results) ==
  [results |-> [k \in 1..Len(results) |-> st[results[k]].content],
   response |->
     IF results = <<>>
     THEN <<"Desculpe, ainda não tenho informações suficientes sobre isso. Você pode me ensinar compartilhando documentos ou links relevantes.">>
     ELSE IF includes(msgLower, Lit_estrutura) /\ includes(msgLower, Lit_html)
     THEN <<"A estrutura básica do HTML é:\n\n<!DOCTYPE html>\n<html>\n<head>\n    <title>Título da página</title>\n</head>\n<body>\n    Conteúdo da página\n</body>\n</html>">>
     ELSE BestMatch(terms, trim(BlankOthers(RemoveUrls(st[results[1]].content))))]

\* generateResponse of the first chat controller: the contents of the found
\* documents and the response.
generateResponse_v1(st, message) ==
  Responded(st, trim(toLowerCase(message)), searchTerms(message),
            find_v1(st, message))

\* --------------------------------------- chat.controller.ts, learning
\* patterns of analyzeContent
patterns(category) ==
  CASE category = "programming" ->
  {<<"t", "a", "g">>, <<"h", "t", "m", "l">>, <<"c", "s", "s">>,
   <<"j", "a", "v", "a", "s", "c", "r", "i", "p", "t">>,
   <<"c", "ó", "d", "i", "g", "o">>, <<"f", "u", "n", "ç", "ã", "o">>,
   <<"v", "a", "r", "i", "á", "v", "e", "l">>}
    [] category = "math" ->
  {<<"n", "ú", "m", "e", "r", "o">>, <<"s", "o", "m", "a">>,
   <<"m", "u", "l", "t", "i", "p", "l", "i", "c", "a", "ç", "ã", "o">>,
   <<"d", "i", "v", "i", "s", "ã", "o">>,
   <<"e", "q", "u", "a", "ç", "ã", "o">>}
    [] category = "technology" ->
  {<<"s", "o", "f", "t", "w", "a", "r", "e">>,
   <<"h", "a", "r", "d", "w", "a", "r", "e">>,
   <<"c", "o", "m", "p", "u", "t", "a", "d", "o", "r">>,
   <<"i", "n", "t", "e", "r", "n", "e", "t">>, <<"r", "e", "d", "e">>}

PatternOrder == <<"programming", "math", "technology">>

\* message.toLowerCase().split(/\s+/)
tokensOf(message) == split(CollapseSpaces(toLowerCase(message)), {" "})

\* Knowledge.find({tokens: {$in: tokens}, category: {$exists: true}}): the
\* indices of the documents found, in store order.
relatedContent(st, tokens) ==
  SelectSeq([i \in 1..Len(st) |-> i],
            LAMBDA i : /\ "tokens" \in DOMAIN st[i]
                       /\ "category" \in DOMAIN st[i]
                       /\ \E a \in 1..Len(st[i].tokens), b \in 1..Len(tokens) :
                            st[i].tokens[a] = tokens[b])

\* The categories of categoryScores in insertion order: the pattern
\* categories with a keyword among the tokens, then the categories of the
\* related documents, each once.
ScoreOrder(st, tokens, related) ==
  LET byPattern ==
        SelectSeq(PatternOrder,
                  LAMBDA c : \E k \in 1..Len(tokens) : tokens[k] \in patterns(c))
      isNew(i) ==
        /\ \A k \in 1..Len(PatternOrder) :
             PatternOrder[k] = st[i].category
             => \A q \in 1..Len(tokens) : tokens[q] \notin patterns(PatternOrder[k])
        /\ \A q \in 1..Len(related) :
             related[q] < i => st[related[q]].category # st[i].category
  IN byPattern \o [k \in 1..Len(SelectSeq(related, isNew)) |->
                     st[SelectSeq(related, isNew)[k]].category]

\* categoryScores.get(c)
Score(st, tokens, related, c) ==
  (IF \E k \in 1..Len(PatternOrder) : PatternOrder[k] = c
   THEN Len(SelectSeq(tokens, LAMBDA t : t \in patterns(c))) ELSE 0)
  + Len(SelectSeq(related, LAMBDA i : st[i].category = c))

\* The first category of order with the highest score, and that score.
Best(st, tokens, related, order) ==
  LET scores == [k \in 1..Len(order) |-> Score(st, tokens, related, order[k])]
      top == FirstIndex(1, Len(order),
                        LAMBDA k : \A j \in 1..Len(order) : scores[j] <= scores[k])
  IN IF order = <<>> THEN [category |-> "general", score |-> 0]
     ELSE [category |-> order[top], score |-> scores[top]]

\* An analysis whose document carries a path.
Analysis_WithPath(message, tokens, best, confidence, now) ==
  [category |-> best.category, confidence |-> confidence, tokens |-> tokens,
   doc |-> [content |-> message, tokens |-> tokens,
            category |-> best.category, patterns |-> tokens,
            confidence |-> confidence, timestamp |-> now,
            source |-> "auto_learning", path |-> best.category]]

\* The value analyzeContent returns, with the document it creates.
Analysis(message, tokens, best, confidence, now) ==
  [category |-> best.category, confidence |-> confidence, tokens |-> tokens,
   doc |-> [content |-> message, tokens |-> tokens,
            category |-> best.category, patterns |-> tokens,
            confidence |-> confidence, timestamp |-> now,
            source |-> "auto_learning"]]

\* An analysis whose confidence is the best score, not divided.
AnalyzeBest_Score(message, tokens, best, now) ==
  Analysis(message, tokens, best, Int2Num(best.score), now)

AnalyzeBest(message, tokens, best, now) ==
  Analysis(message, tokens, best,
           NumDiv(Int2Num(best.score), Int2Num(Len(tokens))), now)

AnalyzeRelated(st, message, tokens, related, now) ==
  AnalyzeBest(message, tokens,
              Best(st, tokens, related, ScoreOrder(st, tokens, related)), now)

AnalyzeTokens(st, message, tokens, now) ==
  AnalyzeRelated(st, message, tokens, relatedContent(st, tokens), now)

\* analyzeContent up to its Store call: the category with the first highest
\* score in insertion order of categoryScores, and the document created.
analyzeContent(st, message, now) ==
  AnalyzeTokens(st, message, tokensOf(message), now)

\* The second document of learnFromMessage.
InputDoc(message, analysis, now) ==
  [content |-> message, category |-> analysis.category,
   tokens |-> analysis.tokens, confidence |-> analysis.confidence,
   timestamp |-> now, source |-> "user_input"]

LearnAnalysed(st, message, analysis, now) ==
  IF CreateThrows(analysis.doc)
  THEN [store |-> st, ret |-> FALSE, category |-> analysis.category]
  ELSE IF CreateThrows(InputDoc(message, analysis, now))
  THEN [store |-> Append(st, Saved(analysis.doc, now)), ret |-> FALSE,
        category |-> analysis.category]
  ELSE [store |-> Append(Append(st, Saved(analysis.doc, now)),
                         Saved(InputDoc(message, analysis, now), now)),
        ret |-> TRUE, category |-> analysis.category]

\* learnFromMessage of chat.controller.ts: the store after the call and the
\* value returned.  A rejected create is caught and answered with false.
learnFromMessage_chat(st, message, now) ==
  LearnAnalysed(st, message, analyzeContent(st, message, now), now)

\* ---------------------------------------------------------------- state
VARIABLES
  store,       \* the Knowledge collection, in insertion (_id) order
  clock,       \* Date.now, advanced by every write
  seedpc,      \* populateBasicMath, one per load of chat.controller.ts
  teachpc,     \* the requests inside learnFromMessage (knowledge.controller)
  operations,  \* baseKnowledge.math.operations
  capitals,    \* baseKnowledge.geography.capitals
  leaders,     \* baseKnowledge.politics.leaders
  last         \* the call that returned last: what it was given, what it
               \* returned, and the size of the collection when it began

vars == <<store, clock, seedpc, teachpc, operations, capitals, leaders, last>>

\* populateBasicMath() is called, not awaited, where chat.controller.ts is
\* evaluated: once at the end of each of the two copies of the controller.
Runs == {1, 2}

\* The requests that may be inside learnFromMessage at the same time.
Requests == {1, 2}

\* The writes a behaviour may make.
MaxClock == 3

None ==
  [op |-> "none", message |-> <<>>, ret |-> "none", content |-> <<>>,
   confidence |-> NaN, rule |-> "none", sets |-> {}, results |-> <<>>,
   left |-> NaN, js |-> NaN, before |-> 0, steps |-> <<>>, status |-> 0]

IdleRequest == [pc |-> "idle", message |-> <<>>, ret |-> "none"]

\* capitals of geography.knowledge.ts
InitialCapitals ==
  {<<<<"B", "r", "a", "s", "i", "l">>,
     <<"B", "r", "a", "s", "í", "l", "i", "a">>>>,
   <<<<"P", "o", "r", "t", "u", "g", "a", "l">>,
     <<"L", "i", "s", "b", "o", "a">>>>}

\* leaders of politicsKnowledge
InitialLeaders ==
  {<<<<"B", "r", "a", "s", "i", "l">>,
     <<"L", "u", "l", "a">>>>,
   <<<<"E", "s", "t", "a", "d", "o", "s", " ", "U", "n", "i", "d", "o", "s">>,
     <<"J", "o", "e", " ", "B", "i", "d", "e", "n">>>>,
   <<<<"P", "o", "r", "t", "u", "g", "a", "l">>,
     <<"M", "a", "r", "c", "e", "l", "o", " ", "R", "e", "b", "e", "l", "o", " ", "d", "e", " ", "S", "o", "u", "s", "a">>>>}

Init ==
  /\ store = <<>>
  /\ clock = 0
  /\ seedpc = [r \in Runs |-> "idle"]
  /\ teachpc = [p \in Requests |-> IdleRequest]
  /\ operations = {}
  /\ capitals = InitialCapitals
  /\ leaders = InitialLeaders
  /\ last = None

\* -------------------------------------------------------------- seeding
\* populateBasicMath up to its insertMany: Knowledge.findOne({source:
\* 'basic_math'}) and the early return.
SeedCheck(r) ==
  /\ seedpc[r] = "idle"
  /\ seedpc' = [seedpc EXCEPT ![r] =
                  IF ExistsBySource(store, "basic_math") THEN "done"
                  ELSE "insert"]
  /\ UNCHANGED <<store, clock, teachpc, operations, capitals, leaders, last>>

\* populateBasicMath from its loops on: the batch is built and inserted.
SeedInsert(r) ==
  /\ seedpc[r] = "insert"
  /\ clock < MaxClock
  /\ store' = insertMany(store, basicExpressions(clock), clock)
  /\ clock' = clock + 1
  /\ seedpc' = [seedpc EXCEPT ![r] = "done"]
  /\ UNCHANGED <<teachpc, operations, capitals, leaders, last>>

\* ---------------------------------------- learnFromMessage, one request
\* learnFromMessage of knowledge.controller.ts run to its end on store st:
\* the collection afterwards and what the caller gets.
TeachValidated(st, r, now) ==
  IF ~r.valid THEN [store |-> st, ret |-> "Chunk processado com sucesso"]
  ELSE IF ExistsContentType(st, r.content, "math")
  THEN [store |-> st, ret |-> "true"]
  ELSE IF CreateThrows(TeachingDoc(r.content))
  THEN [store |-> st, ret |-> "throw"]
  ELSE [store |-> Append(st, Saved(TeachingDoc(r.content), now)),
        ret |-> "true"]

Teach(st, message, now) == TeachValidated(st, learnFromMessage(message), now)

TeachDone(message, r, t) ==
  /\ store' = t.store
  /\ clock' = IF t.store = store THEN clock ELSE clock + 1
  /\ last' = [None EXCEPT !.op = "learnFromMessage",
                          !.message = message,
                          !.before = Len(store),
                          !.ret = t.ret,
                          !.content = r.content]

TeachParsed(message, r) == TeachDone(message, r, TeachValidated(store, r, clock))

\* A request runs learnFromMessage with nothing else in between.
TeachAction(message) ==
  /\ clock < MaxClock
  /\ TeachParsed(message, learnFromMessage(message))
  /\ UNCHANGED <<seedpc, teachpc, operations, capitals, leaders>>

\* ------------------------------- learnFromMessage, concurrent requests
\* A request enters learnFromMessage with its message and runs to the first
\* round trip to the Store it awaits: Knowledge.findOne({content, type}).
TeachLooked(p, message, r) ==
  teachpc' = [teachpc EXCEPT ![p] =
    IF ~r.valid
    THEN [pc |-> "done", message |-> message,
          ret |-> "Chunk processado com sucesso"]
    ELSE IF ExistsContentType(store, r.content, "math")
    THEN [pc |-> "done", message |-> message, ret |-> "true"]
    ELSE [pc |-> "create", message |-> message, ret |-> "none"]]

TeachLookup(p, message) ==
  /\ teachpc[p].pc = "idle"
  /\ TeachLooked(p, message, learnFromMessage(message))
  /\ UNCHANGED <<store, clock, seedpc, operations, capitals, leaders, last>>

\* The second round trip, Knowledge.create, and the return.
TeachCreated(p, doc) ==
  /\ store' = Create(store, doc, clock)
  /\ clock' = IF CreateThrows(doc) THEN clock ELSE clock + 1
  /\ teachpc' = [teachpc EXCEPT ![p].pc = "done",
                   ![p].ret = IF CreateThrows(doc) THEN "throw" ELSE "true"]

TeachCreate(p) ==
  /\ teachpc[p].pc = "create"
  /\ clock < MaxClock
  /\ TeachCreated(p, TeachingDoc(learnFromMessage(teachpc[p].message).content))
  /\ UNCHANGED <<seedpc, operations, capitals, leaders, last>>

\* --------------------------------------------- the other teaching paths
\* learnFromMessage of the first chat controller.  The maps are set before
\* the create is awaited; a rejected create rejects the call.
Teach_v1Done(message, t, throws) ==
  /\ operations' = IF t.rule = "math" THEN MapSet(operations, t.sets)
                   ELSE operations
  /\ capitals' = IF t.rule = "capital" THEN MapSet(capitals, t.sets)
                 ELSE capitals
  /\ leaders' = IF t.rule = "president" THEN MapSet(leaders, t.sets)
                ELSE leaders
  /\ store' = IF throws THEN store ELSE Append(store, Saved(t.doc, clock))
  /\ clock' = IF throws THEN clock ELSE clock + 1
  /\ last' = [None EXCEPT !.op = "learnFromMessage_v1",
                          !.message = message,
                          !.before = Len(store),
                          !.ret = IF throws THEN "throw"
                                  ELSE IF t.ret THEN "true" ELSE "false",
                          !.content = t.doc.content,
                          !.rule = t.rule,
                          !.sets = t.sets]

Teach_v1Try(message, t) == Teach_v1Done(message, t, CreateThrows(t.doc))

Teach_v1Action(message) ==
  /\ clock < MaxClock
  /\ Teach_v1Try(message, learnFromMessage_v1(message))
  /\ UNCHANGED <<seedpc, teachpc>>

\* learnFromMessage of chat.controller.ts (classification, then two creates).
LearnChatDone(message, t) ==
  /\ store' = t.store
  /\ clock' = IF t.store = store THEN clock ELSE clock + 1
  /\ last' = [None EXCEPT !.op = "learnFromMessage_chat",
                          !.message = message,
                          !.before = Len(store),
                          !.ret = IF t.ret THEN "true" ELSE "false",
                          !.content = message,
                          !.rule = t.category]

LearnChatAction(message) ==
  /\ clock < MaxClock
  /\ LearnChatDone(message, learnFromMessage_chat(store, message, clock))
  /\ UNCHANGED <<seedpc, teachpc, operations, capitals, leaders>>

\* processWebContent on the text of a page.
ProcessWebDone(content, t) ==
  /\ store' = t.store
  /\ clock' = IF t.store = store THEN clock ELSE clock + 1
  /\ last' = [None EXCEPT !.op = "processWebContent",
                          !.message = content,
                          !.before = Len(store),
                          !.ret = IF ~t.threw /\ Len(t.store) > Len(store)
                                  THEN "true" ELSE "false"]

ProcessWebAction(content) ==
  /\ clock < MaxClock
  /\ ProcessWebDone(content, processWebContent(store, content, <<"u">>, clock))
  /\ UNCHANGED <<seedpc, teachpc, operations, capitals, leaders>>

\* --------------------------------------------------------------- queries
\* findKnowledge run to its end.
FindKnowledgeDone(query, f, answered, writes) ==
  /\ store' = IF writes
              THEN Append(store, Saved(CalculatedDoc(f.formattedExpression), clock))
              ELSE store
  /\ clock' = IF writes THEN clock + 1 ELSE clock
  /\ last' = [None EXCEPT !.op = "findKnowledge",
                          !.message = query,
                          !.before = Len(store),
                          !.ret = IF answered THEN "content" ELSE "null",
                          !.content = IF answered THEN f.formattedExpression
                                      ELSE <<>>,
                          !.left = f.result]

FindKnowledgeFound(query, f, found, throws) ==
  FindKnowledgeDone(query, f, f.mathMatch /\ (found \/ ~throws),
                    f.mathMatch /\ ~found /\ ~throws)

FindKnowledgeMatched(query, f) ==
  FindKnowledgeFound(query, f,
                     ExistsContentType(store, f.formattedExpression, "math"),
                     CreateThrows(CalculatedDoc(f.formattedExpression)))

FindKnowledgeAction(query) ==
  /\ clock < MaxClock
  /\ FindKnowledgeMatched(query, findKnowledge(query))
  /\ UNCHANGED <<seedpc, teachpc, operations, capitals, leaders>>

\* generateResponse of chat.controller.ts, for a message whose search term
\* has no regular-expression metacharacters.
Answered(message, a, state, reply, rs) ==
  last' = [None EXCEPT !.op = "generateResponse",
                       !.message = message,
                       !.before = Len(store),
                       !.rule = state,
                       !.content = reply.content,
                       !.confidence = reply.confidence,
                       !.results = rs,
                       !.js = a.result]

Retrieved(message, a, searchTerm, hits) ==
  IF hits = {}
  THEN Answered(message, a, "NOT_FOUND", NotFoundReply(message), <<>>)
  ELSE \E i \in hits :
         Answered(message, a, "RETRIEVAL", FoundReply(store[i], searchTerm),
                  <<store[i].content>>)

Checked(message, a, searchTerm) ==
  IF a.mathMatch /\ isFinite(a.result)
  THEN Answered(message, a, "ARITHMETIC_CHECK",
                ArithmeticReply(a.cleanExpr, a.result), <<>>)
  ELSE /\ RegexFree(searchTerm)
       /\ Retrieved(message, a, searchTerm, SearchHits(store, searchTerm))

generateResponse(message) ==
  /\ Checked(message, ArithmeticCheck(message), trim(toLowerCase(message)))
  /\ UNCHANGED <<store, clock, seedpc, teachpc, operations, capitals, leaders>>

\* tokenize(text).tokens: lower-cased, the characters outside [\w\s]
\* removed, split at runs of blanks, empty tokens dropped.  analyzeContent
\* does not call it.
tokenize(text) ==
  SelectSeq(split(CollapseSpaces(SelectSeq(toLowerCase(text),
                                           LAMBDA c : c \in WordChars \/ IsSpace(c))),
                  {" "}),
            LAMBDA t : t # <<>>)

\* calculateRelevance: 2 for every topic the lower-cased content contains, 3
\* for the category of the analysis, 2 for the source 'w3schools'.  No
\* function of the controller calls it.
calculateRelevance(match, analysis) ==
  2 * Cardinality({k \in 1..Len(analysis.mainTopics) :
                     includes(toLowerCase(match.content), analysis.mainTopics[k])})
  + (IF Field(match, "category") = analysis.category THEN 3 ELSE 0)
  + (IF match.source = "w3schools" THEN 2 ELSE 0)

\* ------------------------------------------------------- the chat handler
\* The reply of the outer catch of generateResponse.
ErrorReply ==
  [content |-> <<"Ocorreu um erro ao processar sua pergunta.">>,
   confidence |-> Int2Num(0)]

\* What generateResponse returns, with the blocks of its body the call went
\* through: the arithmetic block, the Store lookup, the extraction.
Reply(state, reply, rs, steps) ==
  [state |-> state, content |-> reply.content,
   confidence |-> reply.confidence, results |-> rs, steps |-> steps]

\* The replies generateResponse may return on the collection st, which
\* answers (up) or rejects the findOne; hits are the documents the findOne
\* may return.
Replies(st, message, a, searchTerm, hits, up) ==
  IF a.mathMatch /\ isFinite(a.result)
  THEN {Reply("ARITHMETIC_CHECK", ArithmeticReply(a.cleanExpr, a.result),
              <<>>, <<"ARITHMETIC_CHECK">>)}
  ELSE IF ~up
  THEN {Reply("ERROR", ErrorReply, <<>>, <<"ARITHMETIC_CHECK", "RETRIEVAL">>)}
  ELSE IF hits = {}
  THEN {Reply("NOT_FOUND", NotFoundReply(message), <<>>,
              <<"ARITHMETIC_CHECK", "RETRIEVAL">>)}
  ELSE {Reply("RETRIEVAL", FoundReply(st[i], searchTerm), <<st[i].content>>,
              <<"ARITHMETIC_CHECK", "RETRIEVAL", "FORMAT">>) : i \in hits}

\* res.status(...).json(...) of chatController.chat: the status and which
\* body, {response} or {error}, is sent.
ChatSent(message, reply) ==
  last' = [None EXCEPT !.op = "chat",
                       !.message = message,
                       !.before = Len(store),
                       !.rule = reply.state,
                       !.content = reply.content,
                       !.confidence = reply.confidence,
                       !.results = reply.results,
                       !.steps = reply.steps,
                       !.status = IF reply.content = <<>> THEN 404 ELSE 200,
                       !.ret = "response"]

ChatChecked(message, a, searchTerm, up) ==
  /\ (a.mathMatch /\ isFinite(a.result)) \/ RegexFree(searchTerm)
  /\ \E reply \in Replies(store, message, a, searchTerm,
                          SearchHits(store, searchTerm), up) :
       ChatSent(message, reply)

\* chatController.chat for one request; up tells whether the Store answers
\* while the request is handled.
chat(message, up) ==
  /\ IF message = <<>>
     THEN last' = [None EXCEPT !.op = "chat", !.before = Len(store),
                               !.status = 400, !.ret = "error"]
     ELSE ChatChecked(message, ArithmeticCheck(message),
                      trim(toLowerCase(message)), up)
  /\ UNCHANGED <<store, clock, seedpc, teachpc, operations, capitals, leaders>>

\* generateResponse of the first chat controller.
Responded_v1(message, g) ==
  last' = [None EXCEPT !.op = "generateResponse_v1",
                       !.message = message,
                       !.before = Len(store),
                       !.content = g.response,
                       !.results = g.results]

generateResponse_v1Action(message) ==
  /\ RegexFree(message)
  /\ Responded_v1(message, generateResponse_v1(store, message))
  /\ UNCHANGED <<store, clock, seedpc, teachpc, operations, capitals, leaders>>

\* -------------------------------------------------------- classification
\* analyzeContent on one message: the scoring, then the create of the
\* document that records it.  A rejected create rejects the call, and the
\* category, confidence and tokens computed are those of the document.
Analysed(message, analysis) ==
  /\ store' = Create(store, analysis.doc, clock)
  /\ clock' = IF CreateThrows(analysis.doc) THEN clock ELSE clock + 1
  /\ last' = [None EXCEPT !.op = "analyzeContent",
                          !.message = message,
                          !.before = Len(store),
                          !.ret = IF CreateThrows(analysis.doc) THEN "throw"
                                  ELSE "analysis",
                          !.rule = analysis.category,
                          !.confidence = analysis.confidence,
                          !.results = analysis.tokens]

analyzeContentAction(message) ==
  /\ last.op = "input" /\ last.message = message
  /\ clock < MaxClock
  /\ Analysed(message, analyzeContent(store, message, clock))
  /\ UNCHANGED <<seedpc, teachpc, operations, capitals, leaders>>

\* ------------------------------------------------------------ evaluation
\* The two evaluators of the program applied to one expression.
Evaluate(expr) ==
  /\ last.op = "input" /\ last.message = expr
  /\ last' = [None EXCEPT !.op = "evaluate",
                          !.message = expr,
                          !.before = Len(store),
                          !.left = calculateExpression(expr),
                          !.js = evaluateExpression(expr)]
  /\ UNCHANGED <<store, clock, seedpc, teachpc, operations, capitals, leaders>>

\* ---------------------------------------------------------------- inputs
\* Messages taught.
TeachInputs ==
  {<<"1", " ", "+", " ", "1", " ", "=", " ", "2">>,
   <<"1", " ", "+", " ", "1", " ", "=", " ", "3">>,
   <<"1", " ", "+", " ", "2", " ", "*", " ", "3", " ", "=", " ", "9">>,
   <<"1", " ", "/", " ", "0", " ", "=", " ", "I", "n", "f", "i", "n", "i", "t", "y">>,
   <<"a", " ", "c", "a", "p", "i", "t", "a", "l", " ", "d", "o", " ", "P", "e", "r", "u", " ", "é", " ", "1", " ", "+", " ", "1", " ", "=", " ", "2">>,
   <<"o", " ", "p", "r", "e", "s", "i", "d", "e", "n", "t", "e", " ", "d", "a", " ", "c", "a", "p", "i", "t", "a", "l", " ", "d", "o", " ", "P", "e", "r", "u", " ", "é", " ", "A", "n", "a">>,
   <<"o", " ", "p", "r", "e", "s", "i", "d", "e", "n", "t", "e", " ", "d", "o", " ", "P", "e", "r", "u", " ", "é", " ", "A", "n", "a">>,
   <<"o", " ", "q", "u", "e", " ", "é", " ", "h", "t", "m", "l">>,
   <<"o", "i">>}

\* The requests that run next to seeding: equations taught,
CoreTeach ==
  {<<"1", " ", "+", " ", "1", " ", "=", " ", "2">>}

\* other messages taught,
CoreTalk ==
  {<<"o", "i">>}

\* bare arithmetic asked,
CoreArithmetic ==
  {<<"1", " ", "+", " ", "2", " ", "+", " ", "3">>,
   <<"5", " ", "/", " ", "0">>}

\* and questions free of regular-expression metacharacters.
CoreQuery ==
  {<<"1", "1", "0">>}

\* Bare arithmetic asked.
ArithmeticInputs ==
  {<<"7", " ", "+", " ", "2">>,
   <<"1", " ", "+", " ", "2", " ", "+", " ", "3">>,
   <<"1", " ", "+", " ", "2", " ", "*", " ", "3">>,
   <<"5", " ", "/", " ", "0">>,
   <<"8", " ", "/", " ", "2">>}

\* Questions asked, free of regular-expression metacharacters.
QueryInputs ==
  {<<"1", "1", "0">>,
   <<"1", " ", "/", " ", "1">>,
   <<"h", "t", "m", "l">>,
   <<"o", "i">>,
   <<"1", "0", " ", "=", " ", "1", "0">>}

\* The largest operand of the generated expressions.
MaxOperand == 2

\* a op b and a op b op c over 0..MaxOperand, and each a op b with a
\* letter after its first operand.
Expressions ==
  {Bin(a, o, b) : a \in 0..MaxOperand, o \in OpChars, b \in 0..MaxOperand}
  \cup {Bin(a, o, b) \o <<" ", q, " ">> \o NatToStr(c) :
          a \in 0..MaxOperand, o \in OpChars, b \in 0..MaxOperand,
          q \in OpChars, c \in 0..MaxOperand}
  \cup {NatToStr(a) \o <<"a", " ", o, " ">> \o NatToStr(b) :
          a \in 0..MaxOperand, o \in OpChars, b \in 0..MaxOperand}

\* -------------------------------------------------------- specifications
\* Seeding and every handler, one request at a time.
Next ==
  \/ \E r \in Runs : SeedCheck(r)
  \/ \E r \in Runs : SeedInsert(r)
  \/ \E m \in CoreTeach : TeachAction(m)
  \/ \E m \in CoreTalk \cup CoreTeach : Teach_v1Action(m)
  \/ \E m \in CoreTalk : LearnChatAction(m)
  \/ \E m \in CoreTeach : ProcessWebAction(m)
  \/ \E m \in CoreArithmetic : FindKnowledgeAction(m)
  \/ \E m \in CoreArithmetic \cup CoreQuery : generateResponse(m)
  \/ \E m \in CoreQuery : generateResponse_v1Action(m)

Spec == Init /\ [][Next]_vars

\* The evaluators alone.
InitEval ==
  /\ store = <<>>
  /\ clock = 0
  /\ seedpc = [r \in Runs |-> "idle"]
  /\ teachpc = [p \in Requests |-> IdleRequest]
  /\ operations = {}
  /\ capitals = InitialCapitals
  /\ leaders = InitialLeaders
  /\ \E e \in Expressions : last = [None EXCEPT !.op = "input", !.message = e]

NextEval == \E e \in Expressions : Evaluate(e)

SpecEval == InitEval /\ [][NextEval]_vars

\* The teaching paths alone, one request at a time.
NextTeach ==
  \/ \E m \in TeachInputs : TeachAction(m)
  \/ \E m \in TeachInputs : Teach_v1Action(m)
  \/ \E m \in TeachInputs : LearnChatAction(m)
  \/ \E m \in TeachInputs : ProcessWebAction(m)
  \/ \E m \in ArithmeticInputs : FindKnowledgeAction(m)
  \/ \E m \in ArithmeticInputs : generateResponse(m)

SpecTeach == Init /\ [][NextTeach]_vars

\* Two requests inside learnFromMessage at once, and questions.
NextRace ==
  \/ \E p \in Requests, m \in TeachInputs : TeachLookup(p, m)
  \/ \E p \in Requests : TeachCreate(p)
  \/ \E m \in QueryInputs : generateResponse_v1Action(m)

SpecRace == Init /\ [][NextRace]_vars

\* Messages sent to the chat endpoint: none, arithmetic with a finite and
\* with a non-finite result, an equation taught, questions, a capital taught.
ChatInputs ==
  {<<>>,
   <<"7", " ", "+", " ", "2">>,
   <<"5", " ", "+", " ", "3", " ", "=", " ", "9">>,
   <<"5", " ", "/", " ", "0">>,
   <<"1", "1", "0">>,
   <<"o", "i">>,
   <<"a", " ", "c", "a", "p", "i", "t", "a", "l", " ", "d", "o", " ", "P", "e", "r", "u", " ", "é", " ", "L", "i", "m", "a">>}

\* Seeding and the chat endpoint, with a Store that may fail a request.
NextChat ==
  \/ \E r \in Runs : SeedCheck(r)
  \/ \E r \in Runs : SeedInsert(r)
  \/ \E m \in ChatInputs, up \in BOOLEAN : chat(m, up)

SpecChat == Init /\ [][NextChat]_vars

\* The words of the classified messages: a keyword of each category, a word
\* with punctuation and a capital, a word of no category.
Vocabulary ==
  {<<"h", "t", "m", "l">>, <<"s", "o", "m", "a">>, <<"r", "e", "d", "e">>,
   <<"H", "e", "l", "l", "o", ",">>, <<"o", "i">>}

\* The most words of a classified message.
MaxWords == 3

\* The messages of at most MaxWords words, one blank between words.
Messages ==
  {join(w, <<" ">>) : w \in UNION {[1..n -> Vocabulary] : n \in 0..MaxWords}}

\* The classifier alone, before seeding and after the first seeding run.
InitClassify ==
  /\ \E seeded \in BOOLEAN :
       /\ store = IF seeded THEN insertMany(<<>>, basicExpressions(0), 0)
                 ELSE <<>>
       /\ clock = IF seeded THEN 1 ELSE 0
       /\ seedpc = [r \in Runs |-> IF seeded /\ r = 1 THEN "done" ELSE "idle"]
  /\ teachpc = [p \in Requests |-> IdleRequest]
  /\ operations = {}
  /\ capitals = InitialCapitals
  /\ leaders = InitialLeaders
  /\ \E m \in Messages : last = [None EXCEPT !.op = "input", !.message = m]

NextClassify == \E m \in Messages : analyzeContentAction(m)

SpecClassify == InitClassify /\ [][NextClassify]_vars

\* ---------------------------------------------------------------- claims
\* The calls that teach.
TeachOps ==
  {"learnFromMessage", "learnFromMessage_v1", "learnFromMessage_chat",
   "processWebContent"}

\* The step is one whole call of a handler (seeding and the two-step
\* requests leave last alone).
HandlerStep == seedpc' = seedpc /\ teachpc' = teachpc

\* The call that returned last taught an equation that is true under the
\* validation of knowledge.controller.ts, in the form '<expr> = <result>'.
TaughtValidEquation(l) ==
  /\ \/ l.op = "learnFromMessage"
     \/ l.op = "learnFromMessage_v1" /\ l.rule = "math"
  /\ learnFromMessage(l.content).valid

InStore(st, content) == \E i \in 1..Len(st) : st[i].content = content

C4_AppendOnly ==
  [][/\ Len(store') >= Len(store)
     /\ SubSeq(store', 1, Len(store)) = store]_vars

\* Both seeding runs wrote, the second after the first, and a handler ran on
\* the Store that holds both batches.
C4_Witness ==
  /\ \A r \in Runs : seedpc[r] = "done"
  /\ Len(store) = 2 * Len(basicExpressions(0))
  /\ store[1].timestamp # store[Len(store)].timestamp
  /\ last.op \in TeachOps
  /\ last.before = Len(store)

\* The content records a result that is not a finite number.
NonFiniteFact(content) == includes(content, InfinityStr) \/ includes(content, NaNStr)

BareArithmetic(m) ==
  /\ IsMathExpression(m)
  /\ \E i \in 1..Len(m) : m[i] \in OpChars
  /\ \A i \in 1..Len(m) : m[i] # "x"

\* C2: a message that is a bare arithmetic expression with a finite result
\* is answered in ARITHMETIC_CHECK with '<expression without spaces> =
\* <result>' and confidence 1, and the Store is not written.
C2_BareArithmeticAnswered ==
  (/\ last.op = "generateResponse"
   /\ BareArithmetic(last.message)
   /\ isFinite(calculateExpression(last.message)))
  => /\ last.rule = "ARITHMETIC_CHECK"
     /\ last.content = Equation(RemoveSpaces(last.message),
                                NumToStr(calculateExpression(last.message)))
     /\ last.confidence = Int2Num(1)
     /\ Len(store) = last.before

\* Lower-cased, whitespace-collapsed content.
Normalized(content) == CollapseSpaces(toLowerCase(content))

\* C3: the candidates a retrieval hands on hold at most one candidate per
\* normalized content.
C3_CandidatesDeduplicated ==
  last.op \in {"generateResponse", "generateResponse_v1"}
  => \A i, j \in 1..Len(last.results) :
       Normalized(last.results[i]) = Normalized(last.results[j]) => i = j

\* The records of the Store with this content.
Records(content) == {i \in 1..Len(store) : store[i].content = content}

\* Both requests taught the same valid equation and both have returned.
BothTaught ==
  /\ \A p \in Requests : teachpc[p].pc = "done"
  /\ teachpc[1].message = teachpc[2].message
  /\ learnFromMessage(teachpc[1].message).valid

\* C5: after two concurrent teach requests for the same valid equation the
\* Store holds one or two records of that content, and a later retrieval
\* presents exactly one candidate for it.
C5_ConcurrentTeach ==
  BothTaught
  => /\ Cardinality(Records(learnFromMessage(teachpc[1].message).content))
          \in {1, 2}
     /\ (last.op = "generateResponse_v1"
         /\ last.message = learnFromMessage(teachpc[1].message).content)
        => Cardinality({k \in 1..Len(last.results) :
                          last.results[k] = last.message}) = 1

\* C6: for every valid expression of two or three operands joined by
\* + - * /, every evaluator of the program returns the strict left-to-right
\* fold (last.left, the fold of calculateExpression; last.js, the value of
\* evaluateExpression).
C6_LeftToRightEverywhere ==
  (last.op = "evaluate" /\ BareArithmetic(last.message))
  => last.js = last.left

\* The characters an expression may hold, blanks apart.
AllowedChars == Digits \cup OpCharsX \cup {"(", ")", " "}

\* C7: for an input with a character other than digits, + - * x / and
\* parentheses, no evaluator returns a number: the offending characters are
\* never dropped and the rest evaluated.
C7_DisallowedRejected ==
  (last.op = "evaluate" /\ \E i \in 1..Len(last.message) :
                             last.message[i] \notin AllowedChars)
  => last.js = NaN /\ last.left = NaN

\* The call that returned last taught an equation whose left side does not
\* evaluate to its right side.
TaughtWrongEquation(l) ==
  /\ \/ l.op = "learnFromMessage"
     \/ l.op = "learnFromMessage_v1" /\ l.rule = "math"
  /\ includes(l.content, <<"=">>)
  /\ ~learnFromMessage(l.content).valid

FirstRule(message) ==
  IF mathPattern(message).found THEN "math"
  ELSE IF capitalPattern(message).found THEN "capital"
  ELSE IF presidentPattern(message).found THEN "president"
  ELSE IF definitionPattern(message) THEN "definition"
  ELSE "fallback"

\* C10: teaching applies to a message the first rule that matches in the
\* order arithmetic fact, capital-of, leader-of, generic definition,
\* fallback.
C10_FirstMatchingRule ==
  last.op = "learnFromMessage_v1" => last.rule = FirstRule(last.message)

\* The call that returned last was a teach request of either controller for
\* a message that matches none of the four extraction rules.
TaughtUnmatched(l) ==
  /\ l.op \in {"learnFromMessage", "learnFromMessage_v1"}
  /\ FirstRule(l.message) = "fallback"

\* C11: a teach request whose message matches none of the rules arithmetic
\* fact, capital-of, leader-of, generic definition does not fail: it ends
\* with exactly one new Fact whose content is the raw message and whose
\* category is what the classifier returns for the message.
C11_FallbackPersisted ==
  TaughtUnmatched(last)
  => /\ last.ret # "throw"
     /\ Len(store) = last.before + 1
     /\ store[Len(store)].content = last.message
     /\ Field(store[Len(store)], "type") = detectKnowledgeType(last.message)

\* ------------------------------------------------- teaching, then asking
\* Capitals taught: a country with one value and with another, and another
\* country.
RoundTeach ==
  {<<"a", " ", "c", "a", "p", "i", "t", "a", "l", " ", "d", "o", " ", "P", "e", "r", "u", " ", "é", " ", "L", "i", "m", "a">>,
   <<"a", " ", "c", "a", "p", "i", "t", "a", "l", " ", "d", "o", " ", "P", "e", "r", "u", " ", "é", " ", "C", "u", "s", "c", "o">>,
   <<"a", " ", "c", "a", "p", "i", "t", "a", "l", " ", "d", "o", " ", "C", "h", "i", "l", "e", " ", "é", " ", "L", "i", "m", "a">>}

\* The question about the capital of a country.
CapitalQuery(country) == Lit_capital \o <<" ", "d", "o", " ">> \o country

RoundQuery ==
  {CapitalQuery(<<"P", "e", "r", "u">>), CapitalQuery(<<"C", "h", "i", "l", "e">>)}

\* Seeding, the first chat controller taught capitals and asked for them.
NextRound ==
  \/ \E r \in Runs : SeedCheck(r)
  \/ \E r \in Runs : SeedInsert(r)
  \/ \E m \in RoundTeach : Teach_v1Action(m)
  \/ \E m \in RoundQuery : generateResponse_v1Action(m)

SpecRound == Init /\ [][NextRound]_vars

\* The pairs <<country, capital>> taught since the process began: each
\* teaching of a capital sets the country's entry, so an entry is the last
\* value taught for its country.
TaughtCapitals == capitals \ InitialCapitals

\* C12: after 'a capital do X é Y' was taught and nothing was taught about X
\* since, asking for the capital of X retrieves a Fact about X (whatever the
\* case of its letters) whose value contains Y.
C12_TeachThenQuery ==
  \A e \in TaughtCapitals :
    (last.op = "generateResponse_v1" /\ last.message = CapitalQuery(e[1]))
    => \E k \in 1..Len(last.results) :
         /\ includes(toLowerCase(last.results[k]), toLowerCase(e[1]))
         /\ includes(last.results[k], e[2])

\* The markers of the utility test: definitional, technical, and the
\* navigation and login boilerplate that counts as noise.
DefinitionalMarkers == {Lit_is, Lit_means, <<"d", "e", "f", "i", "n", "e", "s">>}

TechnicalMarkers ==
  {Lit_tag, <<"e", "l", "e", "m", "e", "n", "t">>,
   <<"a", "t", "t", "r", "i", "b", "u", "t", "e">>}

NoiseMarkers ==
  {<<"l", "o", "g", "i", "n">>,
   <<"n", "a", "v", "i", "g", "a", "t", "i", "o", "n">>}

\* The utility test: between 20 and 500 characters, no noise marker, and a
\* definitional or technical marker.
Useful(content) ==
  /\ Len(content) >= 20 /\ Len(content) <= 500
  /\ \A w \in NoiseMarkers : ~includes(toLowerCase(content), w)
  /\ \E w \in DefinitionalMarkers \cup TechnicalMarkers :
       includes(toLowerCase(content), w)

\* C13: no Fact that fails the utility test (shorter than 20 or longer than
\* 500 characters, or with a noise marker, or without a definitional or
\* technical marker) is returned by the main retrieval pass.
C13_UtilityFiltered ==
  (last.op = "generateResponse" /\ last.rule = "RETRIEVAL")
  => \A k \in 1..Len(last.results) : Useful(last.results[k])

\* The calls that retrieve.
RetrieveOps == {"generateResponse", "generateResponse_v1", "findKnowledge"}

\* C14: a retrieval run twice on the same query, with no write to the Store
\* in between, returns the same top match and the same answer both times,
\* and leaves the Store as it found it.
C14_RetrieverIdempotent ==
  [][(/\ HandlerStep
      /\ last.op \in RetrieveOps
      /\ last'.op = last.op
      /\ last'.message = last.message
      /\ last.before = Len(store))
     => /\ last'.results = last.results
        /\ last'.content = last.content
        /\ store' = store]_vars

\* The steps of the Responder in their forward order.
ResponderOrder == <<"ARITHMETIC_CHECK", "TEACHING_CHECK", "RETRIEVAL", "FORMAT">>

StepRank(step) == CHOOSE k \in 1..Len(ResponderOrder) : ResponderOrder[k] = step

\* The request the chat endpoint answered last had a message.
Handled(l) == l.op = "chat" /\ l.message # <<>>

\* C15: every request goes through the Responder steps in the forward order
\* ARITHMETIC_CHECK, TEACHING_CHECK, RETRIEVAL, FORMAT, without revisiting a
\* step, and every message that arithmetic does not answer is put to
\* TEACHING_CHECK before RETRIEVAL.
C15_ForwardOrder ==
  Handled(last)
  => /\ last.steps # <<>> /\ last.steps[1] = "ARITHMETIC_CHECK"
     /\ \A i, j \in 1..Len(last.steps) :
          i < j => StepRank(last.steps[i]) < StepRank(last.steps[j])
     /\ last.rule # "ARITHMETIC_CHECK"
        => \E i \in 1..Len(last.steps) :
             /\ last.steps[i] = "TEACHING_CHECK"
             /\ \A j \in 1..Len(last.steps) :
                  last.steps[j] = "RETRIEVAL" => i < j

\* C16: a request during which a Store operation fails is answered with the
\* internal-error response, status 500 with an error body, never with a
\* success response.
C16_StoreFailureIs500 ==
  (Handled(last) /\ last.rule = "ERROR")
  => last.status = 500 /\ last.ret = "error"

\* The confidence a hit on this Fact is to be answered with: the one stored
\* on the Fact, 0.8 when the Fact stores none.
StoredConfidence(doc) ==
  IF "confidence" \in DOMAIN doc THEN doc.confidence ELSE Fin(8, 10)

TaughtCapital(l) == l.op = "learnFromMessage_v1" /\ l.rule = "capital"

\* C19: when a value was taught for a term and then another value for the
\* same term, a retrieval for the term returns first the Fact that carries
\* the value taught last.
C19_MostRecentWins ==
  [][(/\ HandlerStep
      /\ TaughtCapital(last) /\ TaughtCapital(last')
      /\ \E a \in last.sets, b \in last'.sets : a[1] = b[1] /\ a[2] # b[2])
     => \A b \in last'.sets :
          /\ generateResponse_v1(store', CapitalQuery(b[1])).results # <<>>
          /\ includes(generateResponse_v1(store', CapitalQuery(b[1])).results[1],
                      b[2])]_vars

\* C20: every Fact of the Store has content, a source and a path, and a
\* Fact handed to the Store without a path is persisted with a path filled
\* in, not rejected: a call that creates one Fact ends with that Fact
\* stored.
C20_PathDefaulted ==
  /\ \A i \in 1..Len(store) :
       /\ store[i].content # <<>>
       /\ store[i].source # ""
       /\ "path" \in DOMAIN store[i]
  /\ last.op = "learnFromMessage_v1"
     => /\ last.ret # "throw"
        /\ Len(store) = last.before + 1
        /\ store[Len(store)].content = last.content
        /\ "path" \in DOMAIN store[Len(store)]

\* C21: a message that contains '=' is never answered by ARITHMETIC_CHECK.
C21_EquationNotArithmetic ==
  (last.op \in {"chat", "generateResponse"} /\ includes(last.message, <<"=">>))
  => last.rule # "ARITHMETIC_CHECK"

\* The Facts the lookup of generateResponse matches for a message, and what
\* the ranking is given for it: its search terms and its category.
Candidates(st, message) ==
  {i \in 1..Len(st) : MatchesSearch(st[i].content, trim(toLowerCase(message)))}

QueryAnalysis(message) ==
  [mainTopics |-> searchTerms(message), category |-> "general"]

\* Candidate i has the highest score, and is the most recently created of
\* the candidates with that score.
TopRanked(st, cands, analysis, i) ==
  \A j \in cands :
    \/ calculateRelevance(st[j], analysis) < calculateRelevance(st[i], analysis)
    \/ /\ calculateRelevance(st[j], analysis) = calculateRelevance(st[i], analysis)
       /\ j <= i

\* C22: a retrieval hit is a candidate of maximal score (2 per search term
\* contained in the content, 3 for the category of the query, 2 for the
\* trusted source), and among candidates of equal score the most recently
\* created one.
C22_MaximalScoreReturned ==
  (/\ last.op = "chat" /\ last.rule = "RETRIEVAL"
   /\ last.before = Len(store))
  => \E i \in Candidates(store, last.message) :
       /\ TopRanked(store, Candidates(store, last.message),
                    QueryAnalysis(last.message), i)
       /\ last.results[1] = store[i].content

\* The categories that can score: those of the keyword table.
Categories == {PatternOrder[k] : k \in 1..Len(PatternOrder)}

\* The combined score of category c for the tokens: keyword hits plus one
\* for every stored Fact of the category that shares a token.
CombinedScore(st, tokens, c) == Score(st, tokens, relatedContent(st, tokens), c)

\* Category c scores above 0 and strictly above every other category.
StrictlyHighest(st, tokens, c) ==
  /\ CombinedScore(st, tokens, c) > 0
  /\ \A d \in Categories \ {c} :
       CombinedScore(st, tokens, d) < CombinedScore(st, tokens, c)

\* C23: classify returns the category whose combined score is strictly
\* higher than every other category's, and 'general' when categories share
\* the highest score or none scores above 0.
C23_StrictMaxOrGeneral ==
  last.op = "analyzeContent"
  => IF \E c \in Categories : StrictlyHighest(store, last.results, c)
     THEN StrictlyHighest(store, last.results, last.rule)
     ELSE last.rule = "general"

\* The highest combined score of a category for the tokens, 0 when no
\* category scores.
BestScore(st, tokens) ==
  CHOOSE n \in 0..(Len(tokens) + Len(st)) :
    /\ \A c \in Categories : CombinedScore(st, tokens, c) <= n
    /\ n > 0 => \E c \in Categories : CombinedScore(st, tokens, c) = n

\* x is a number of the interval [0, 1].
InUnitInterval(x) == isFinite(x) /\ x.n >= 0 /\ x.n <= x.d

\* bestScore / tokenCount, at most 1, and 0 when there is no token.
ClampedConfidence(st, tokens) ==
  IF tokens = <<>> \/ BestScore(st, tokens) = 0 THEN Int2Num(0)
  ELSE IF BestScore(st, tokens) >= Len(tokens) THEN Int2Num(1)
  ELSE NumDiv(Int2Num(BestScore(st, tokens)), Int2Num(Len(tokens)))

C26_TokensNormalized ==
  last.op = "analyzeContent"
  => /\ last.results = tokenize(last.message)
     /\ searchTerms(last.message)
          = SelectSeq(tokenize(last.message), LAMBDA t : Len(t) > 2)

\* C27: a teach request whose persist fails stores no Fact and changes no
\* in-process knowledge map, so that every capital held in process memory
\* beyond the initial ones is that of a Fact in the Store.
C27_FailedTeachChangesNothing ==
  [][(/\ HandlerStep
      /\ last'.op = "learnFromMessage_v1" /\ last'.ret = "throw")
     => /\ store' = store
        /\ operations' = operations
        /\ capitals' = capitals
        /\ leaders' = leaders
        /\ \A e \in capitals' \ InitialCapitals :
             \E i \in 1..Len(store') :
               includes(store'[i].content, e[1]) /\ includes(store'[i].content, e[2])]_vars

\* C28: every Fact inserted by bulk seeding would pass the teaching
\* validation: the left-to-right value of the expression of its content
\* equals the result the content states.
C28_SeedPassesValidation ==
  \A i \in 1..Len(store) :
    store[i].source = "basic_math" => learnFromMessage(store[i].content).valid

\* The Facts of the Store that bulk seeding inserted.
SeededFacts == {i \in 1..Len(store) : store[i].source = "basic_math"}

\* C29: when two seeding runs overlap at most one of them inserts the table:
\* the Store never holds seeded Facts of two runs, that is, more seeded Facts
\* than one run inserts or seeded Facts of two insertion times.
C29_AtMostOneSeedBatch ==
  /\ Cardinality(SeededFacts) <= Len(basicExpressions(0))
  /\ \A i, j \in SeededFacts : store[i].timestamp = store[j].timestamp

====
